---- MODULE Spec2Model ----
(***************************************************************************)
(* A model of osmium::area::Assembler (include/osmium/area/assembler.hpp)  *)
(* and of the helper types it drives (NodeRefSegment, SegmentList,         *)
(* ProtoRing).  The Assembler's methods are translated from the header;    *)
(* the helper types, whose headers are not part of the source tree at      *)
(* hand, follow their description in the specification.                    *)
(***************************************************************************)
EXTENDS Integers, Sequences, FiniteSets, TLC

VARIABLES
    pc,            \* position inside operator(): "idle", "stitch", "classify",
                   \* "holes", "roles", "emit", "commit", "second", "done"
    config,        \* m_config: [problem_reporter : BOOLEAN]
    input,         \* the object operator() was called with
    calls,         \* number of operator() calls made on this instance
    m_segment_list,
    m_rings,       \* std::list<ProtoRing>
    m_outer_rings, \* std::vector<ProtoRing*>, as positions in m_rings
    m_inner_rings,
    m_inner_outer_mismatches,
    idx,           \* loop position of the running phase
    builder,       \* the AreaBuilder's area under construction
    rings_ok,      \* return value of create_rings() once it has returned
    out_buffer,    \* committed entities of the output buffer
    out_before,    \* the committed entities when the running call started
    reports,       \* calls received by the problem reporter in this call
    m_vector,      \* VectorBasedSparseMultimap::m_vector
    client         \* the multimap's user: where it is, the arguments of its
                   \* last remove() and m_vector as it was at that call

vars == << pc, config, input, calls, m_segment_list, m_rings, m_outer_rings,
           m_inner_rings, m_inner_outer_mismatches, idx, builder, rings_ok,
           out_buffer, out_before, reports, m_vector, client >>

-----------------------------------------------------------------------------
(* Bounds of the model *)

\* largest number of member ways of a relation
MaxMembers == 4
\* relation ids are 1..MaxRelId
MaxRelId == 1
\* calls of operator() on one Assembler instance (SpecReuse)
MaxCalls == 2
\* largest number of entries of the multimap (SpecMultimap)
MaxEntries == 3

-----------------------------------------------------------------------------
(* Input data: nodes with resolved locations, ways, scenes *)

\* a node reference of a way: the node's id and its resolved location <<x, y>>
NodeRef(id, x, y) == [ref |-> id, location |-> << x, y >>]

Loc(n) == n.location
X(l) == l[1]
Y(l) == l[2]

Tag(k, v) == [key |-> k, value |-> v]

\* The ways of the input buffer.  A way's id is its position.
\*  1: outer polygon with a notch reaching down to (10,10)
\*  2: triangle inside 1      3: triangle inside 2     4: triangle inside 3
\*  5: triangle to the right of 1                      6: triangle inside 5
\*  7: triangle in the notch of 1, touching it at node 4
\*  8: triangle inside 7
\*  9: self-intersecting way  10: way that is not closed
\* 11, 12: the two halves of a square; where they meet, each has a node of
\*         its own at the same location
\* 13: triangle inside that square whose last node is not its first node but
\*     lies at the same location
\* 14: pentagon                15: triangle outside 14, touching it at node 45
\* 16: triangle inside 14, touching it at node 45
WayNodes == <<
    << NodeRef(1, 0, 0), NodeRef(2, 40, 0), NodeRef(3, 40, 40),
       NodeRef(4, 10, 10), NodeRef(5, 0, 40), NodeRef(1, 0, 0) >>,
    << NodeRef(6, 12, 2), NodeRef(7, 38, 4), NodeRef(8, 36, 30),
       NodeRef(6, 12, 2) >>,
    << NodeRef(9, 24, 8), NodeRef(10, 34, 9), NodeRef(11, 33, 20),
       NodeRef(9, 24, 8) >>,
    << NodeRef(12, 29, 11), NodeRef(13, 32, 12), NodeRef(14, 31, 15),
       NodeRef(12, 29, 11) >>,
    << NodeRef(15, 50, 10), NodeRef(16, 52, 1), NodeRef(17, 60, 8),
       NodeRef(15, 50, 10) >>,
    << NodeRef(18, 53, 6), NodeRef(19, 55, 5), NodeRef(20, 55, 7),
       NodeRef(18, 53, 6) >>,
    << NodeRef(4, 10, 10), NodeRef(21, 20, 30), NodeRef(22, 12, 34),
       NodeRef(4, 10, 10) >>,
    << NodeRef(23, 13, 22), NodeRef(24, 15, 24), NodeRef(25, 14, 26),
       NodeRef(23, 13, 22) >>,
    << NodeRef(26, 70, 0), NodeRef(27, 80, 10), NodeRef(28, 80, 0),
       NodeRef(29, 70, 10), NodeRef(26, 70, 0) >>,
    << NodeRef(30, 90, 0), NodeRef(31, 95, 0), NodeRef(32, 95, 5) >>,
    << NodeRef(33, 100, 0), NodeRef(34, 120, 0), NodeRef(35, 120, 20) >>,
    << NodeRef(36, 120, 20), NodeRef(37, 100, 20), NodeRef(38, 100, 0) >>,
    << NodeRef(39, 105, 5), NodeRef(40, 115, 6), NodeRef(41, 110, 15),
       NodeRef(42, 105, 5) >>,
    << NodeRef(43, 200, 20), NodeRef(44, 205, 10), NodeRef(45, 210, 20),
       NodeRef(46, 230, 35), NodeRef(47, 205, 30), NodeRef(43, 200, 20) >>,
    << NodeRef(45, 210, 20), NodeRef(48, 220, 10), NodeRef(49, 225, 15),
       NodeRef(45, 210, 20) >>,
    << NodeRef(45, 210, 20), NodeRef(50, 206, 18), NodeRef(51, 207, 17),
       NodeRef(45, 210, 20) >>
>>

WayTags == <<
    << Tag("landuse", "forest"), Tag("name", "wood") >>,
    << Tag("natural", "water"), Tag("source", "survey") >>,
    << Tag("landuse", "forest"), Tag("name", "wood") >>,
    << Tag("source", "survey") >>,
    << Tag("landuse", "forest"), Tag("name", "grove") >>,
    << Tag("landuse", "forest") >>,
    << >>,
    << Tag("natural", "water") >>,
    << Tag("landuse", "forest") >>,
    << Tag("natural", "water") >>,
    << Tag("landuse", "forest") >>,
    << Tag("landuse", "forest") >>,
    << Tag("natural", "water") >>,
    << Tag("landuse", "forest") >>,
    << Tag("landuse", "forest") >>,
    << Tag("natural", "water") >>
>>

Ways == 1..Len(WayNodes)

\* Tag lists a relation can carry.
RelationTags == {
    << Tag("type", "multipolygon") >>,
    << Tag("type", "multipolygon"), Tag("landuse", "forest") >>,
    << Tag("type", "multipolygon"), Tag("source", "survey"), Tag("natural", "water") >>
}

\* Groups of ways a relation draws its members from.
Scenes == << <<1, 2, 3, 4>>, <<1, 5, 7, 8>>, <<5, 6, 9, 10>>, <<11, 12, 13>>,
            <<14, 15, 16>> >>

Roles == {"outer", "inner"}

-----------------------------------------------------------------------------
(* Sequence helpers *)

Range(s) == {s[i] : i \in DOMAIN s}

Reverse(s) == [i \in 1..Len(s) |-> s[Len(s) + 1 - i]]

RECURSIVE SeqSum(_)
SeqSum(s) == IF s = << >> THEN 0 ELSE Head(s) + SeqSum(Tail(s))

\* s without the positions from..to-1 (vector::erase(from, to))
EraseRange(s, from, to) ==
    SubSeq(s, 1, from - 1) \o SubSeq(s, to, Len(s))

\* the strictly increasing sequences over 1..n, as subsequences of s
SubSeqsOf(s, maxlen) ==
    { [i \in 1..Cardinality(I) |->
          s[CHOOSE k \in I : Cardinality({j \in I : j < k}) = i - 1]] :
      I \in {J \in SUBSET (1..Len(s)) : Cardinality(J) <= maxlen} }

-----------------------------------------------------------------------------
(* Location and NodeRefSegment *)

\* Location order: x, then y
LocLess(a, b) == X(a) < X(b) \/ (X(a) = X(b) /\ Y(a) < Y(b))

\* The constructor orders the two node refs by location.
NodeRefSegment(nr1, nr2, role, way) ==
    IF LocLess(Loc(nr2), Loc(nr1))
    THEN [first |-> nr2, second |-> nr1, role |-> role, way |-> way]
    ELSE [first |-> nr1, second |-> nr2, role |-> role, way |-> way]

swap_locations(s) == [s EXCEPT !.first = s.second, !.second = s.first]

role_outer(s) == s.role = "outer"
role_inner(s) == s.role = "inner"

\* operator==: by the pair of endpoint locations, the way is ignored
SegEq(s1, s2) ==
    Loc(s1.first) = Loc(s2.first) /\ Loc(s1.second) = Loc(s2.second)

\* operator<: by first location, then by second location
SegLess(s1, s2) ==
    \/ LocLess(Loc(s1.first), Loc(s2.first))
    \/ Loc(s1.first) = Loc(s2.first) /\ LocLess(Loc(s1.second), Loc(s2.second))

Sign(v) == IF v > 0 THEN 1 ELSE IF v < 0 THEN -1 ELSE 0

\* orientation of the triple a, b, c: sign of the cross product of the deltas
Orientation(a, b, c) ==
    Sign((X(b) - X(a)) * (Y(c) - Y(a)) - (Y(b) - Y(a)) * (X(c) - X(a)))

LocMax(a, b) == IF LocLess(a, b) THEN b ELSE a
LocMin(a, b) == IF LocLess(a, b) THEN a ELSE b

\* intersects(a, b): "disjoint", "touch_endpoint", "cross", "collinear_overlap"
intersects(s1, s2) ==
    LET a == Loc(s1.first)   b == Loc(s1.second)
        c == Loc(s2.first)   d == Loc(s2.second)
        o1 == Orientation(a, b, c)   o2 == Orientation(a, b, d)
        o3 == Orientation(c, d, a)   o4 == Orientation(c, d, b)
    IN  IF o1 * o2 < 0 /\ o3 * o4 < 0 THEN "cross"
        ELSE IF /\ o1 = 0 /\ o2 = 0 /\ o3 = 0 /\ o4 = 0
                /\ LocLess(LocMax(LocMin(a, b), LocMin(c, d)),
                           LocMin(LocMax(a, b), LocMax(c, d)))
             THEN "collinear_overlap"
        ELSE IF {a, b} \cap {c, d} # {} THEN "touch_endpoint"
        ELSE "disjoint"

\* to_left_of(seg, p): the segment passes strictly to the left of p at
\* height p.y.  A segment ending at p is not counted here.
to_left_of(s, p) ==
    LET f == Loc(s.first)
        g == Loc(s.second)
        lo == IF Y(f) < Y(g) THEN f ELSE g
        hi == IF Y(f) < Y(g) THEN g ELSE f
    IN  /\ f # p
        /\ g # p
        /\ X(f) <= X(p)
        /\ Y(lo) < Y(p)
        /\ Y(p) <= Y(hi)
        /\ (X(hi) - X(lo)) * (Y(p) - Y(lo)) - (Y(hi) - Y(lo)) * (X(p) - X(lo)) < 0

-----------------------------------------------------------------------------
(* SegmentList *)

RECURSIVE SegmentsOfNodes(_, _, _)
SegmentsOfNodes(nodes, role, way) ==
    IF Len(nodes) < 2 THEN << >>
    ELSE LET rest == SegmentsOfNodes(Tail(nodes), role, way)
         IN  IF Loc(nodes[1]) = Loc(nodes[2])
             THEN rest      \* a degenerate segment is discarded
             ELSE << NodeRefSegment(nodes[1], nodes[2], role, way) >> \o rest

\* one segment per consecutive node pair, appended to the list
extract_segments_from_way(list, way, role) ==
    list \o SegmentsOfNodes(WayNodes[way], role, way)

\* members: sequence of [way, role]
RECURSIVE extract_segments_from_ways(_, _)
extract_segments_from_ways(list, members) ==
    IF members = << >> THEN list
    ELSE extract_segments_from_ways(
             extract_segments_from_way(list, Head(members).way, Head(members).role),
             Tail(members))

\* insert s behind every element that is not greater than it
RECURSIVE InsertSorted(_, _)
InsertSorted(sorted, s) ==
    IF sorted = << >> THEN << s >>
    ELSE IF SegLess(s, Head(sorted)) THEN << s >> \o sorted
    ELSE << Head(sorted) >> \o InsertSorted(Tail(sorted), s)

RECURSIVE SortSegments(_)
SortSegments(list) ==
    IF list = << >> THEN << >>
    ELSE InsertSorted(SortSegments(SubSeq(list, 1, Len(list) - 1)), list[Len(list)])

\* position of the first adjacent pair of equal segments, 0 if there is none
AdjacentEqual(list) ==
    LET hits == {i \in 1..(Len(list) - 1) : SegEq(list[i], list[i + 1])}
    IN  IF hits = {} THEN 0 ELSE CHOOSE i \in hits : \A j \in hits : i <= j

\* both copies of a segment that occurs twice are removed
RECURSIVE erase_duplicate_segments(_)
erase_duplicate_segments(list) ==
    LET i == AdjacentEqual(list)
    IN  IF i = 0 THEN list
        ELSE erase_duplicate_segments(EraseRange(list, i, i + 2))

\* the pairs the sweep of find_intersections looks at and reports
IntersectingPairs(list) ==
    { p \in (1..Len(list)) \X (1..Len(list)) :
        /\ p[1] < p[2]
        /\ X(Loc(list[p[2]].first)) <= X(Loc(list[p[1]].second))
        /\ intersects(list[p[1]], list[p[2]]) \in {"cross", "collinear_overlap"} }

find_intersections(list) == IntersectingPairs(list) # {}

\* the reports of find_intersections, in the order of the sweep
RECURSIVE PairsInOrder(_)
PairsInOrder(ps) ==
    IF ps = {} THEN << >>
    ELSE LET p == CHOOSE q \in ps :
                     \A r \in ps : q[1] < r[1] \/ (q[1] = r[1] /\ q[2] <= r[2])
         IN  << p >> \o PairsInOrder(ps \ {p})

IntersectionReports(list) ==
    LET ps == PairsInOrder(IntersectingPairs(list))
    IN  [i \in 1..Len(ps) |->
            [kind |-> "intersection",
             a |-> << Loc(list[ps[i][1]].first), Loc(list[ps[i][1]].second) >>,
             b |-> << Loc(list[ps[i][2]].first), Loc(list[ps[i][2]].second) >>]]

-----------------------------------------------------------------------------
(* ProtoRing *)

FirstIn(S) == CHOOSE i \in S : \A j \in S : i <= j

\* a new ring is outer and holds no inner rings
ProtoRing(segs) == [segments |-> segs, outer |-> TRUE, inner |-> << >>]

get_segment_front(r) == r.segments[1]
get_segment_back(r) == r.segments[Len(r.segments)]

add_segment_back(r, s) == [r EXCEPT !.segments = Append(@, s)]
add_segment_front(r, s) == [r EXCEPT !.segments = << s >> \o @]
remove_segments(r, from, to) == [r EXCEPT !.segments = EraseRange(@, from, to)]

\* reverses the order and swaps the endpoints of every segment
ReverseSegments(segs) ==
    [i \in 1..Len(segs) |-> swap_locations(segs[Len(segs) + 1 - i])]

reverse(r) == [r EXCEPT !.segments = ReverseSegments(@)]
merge_ring(r, other) == [r EXCEPT !.segments = @ \o other.segments]
merge_ring_reverse(r, other) ==
    [r EXCEPT !.segments = @ \o ReverseSegments(other.segments)]

closed(r) ==
    Loc(get_segment_front(r).first) = Loc(get_segment_back(r).second)

\* the chain is connected: each segment starts where the one before it ends
connected(r) ==
    \A i \in 1..(Len(r.segments) - 1) :
        Loc(r.segments[i].second) = Loc(r.segments[i + 1].first)

\* Signed shoelace sum over the node polyline, which is twice the signed
\* area: the callers use its sign and its order only.
area(r) ==
    SeqSum([i \in 1..Len(r.segments) |->
        X(Loc(r.segments[i].first)) * Y(Loc(r.segments[i].second))
      - X(Loc(r.segments[i].second)) * Y(Loc(r.segments[i].first))])

is_cw(r) == area(r) > 0

\* the segment is one of the ring's, in either direction
contains(r, s) ==
    \E i \in 1..Len(r.segments) :
        \/ SegEq(r.segments[i], s)
        \/ SegEq(swap_locations(r.segments[i]), s)

get_ways(r) == {r.segments[i].way : i \in 1..Len(r.segments)}

\* the endpoint with the smallest location
min_node(r) ==
    LET nodes == UNION {{r.segments[i].first, r.segments[i].second} :
                        i \in 1..Len(r.segments)}
        least == {n \in nodes : \A m \in nodes : ~LocLess(Loc(m), Loc(n))}
    IN  CHOOSE n \in least : \A m \in least : n.ref <= m.ref

\* the edge a -> b is crossed by the ray from p towards greater x
RayCrosses(a, b, p) ==
    /\ (Y(a) > Y(p)) # (Y(b) > Y(p))
    /\ IF Y(b) > Y(a)
       THEN (X(p) - X(a)) * (Y(b) - Y(a)) < (X(b) - X(a)) * (Y(p) - Y(a))
       ELSE (X(p) - X(a)) * (Y(b) - Y(a)) > (X(b) - X(a)) * (Y(p) - Y(a))

\* point in polygon: the ray from p crosses the ring an odd number of times
PointInRing(p, r) ==
    Cardinality({i \in 1..Len(r.segments) :
        RayCrosses(Loc(r.segments[i].first), Loc(r.segments[i].second), p)}) % 2 = 1

\* is_in(outer): point in polygon of this ring's min_node against outer
is_in(r, outer_ring) == PointInRing(Loc(min_node(r)), outer_ring)

set_inner(r) == [r EXCEPT !.outer = FALSE]
add_inner_ring(r, ptr) == [r EXCEPT !.inner = Append(@, ptr)]

\* the node sequence a ring builder receives for the ring
RingNodes(r) ==
    << get_segment_front(r).first >> \o
    [i \in 1..Len(r.segments) |-> r.segments[i].second]

-----------------------------------------------------------------------------
(* Assembler: ring stitching.  The operators work on a record                *)
(*   [rings, rep, cur, erased, flag]                                         *)
(* rings: m_rings; rep: the reporter calls made so far; cur: the position    *)
(* of the ring the caller holds a reference to; erased: the position         *)
(* m_rings.erase() removed, 0 if none; flag: the bool the method returns.    *)

\* Faulty variant of has_same_location that compares the ids; with it in place
\* C15 must fail.
has_same_location_by_id(nr1, nr2) == nr1.ref = nr2.ref

has_same_location(nr1, nr2) == Loc(nr1) = Loc(nr2)

\* the report has_same_location makes when it returns true
DuplicateNodeReport(nr1, nr2) ==
    IF nr1.ref # nr2.ref
    THEN << [kind |-> "duplicate_node", id1 |-> nr1.ref, id2 |-> nr2.ref,
             loc |-> Loc(nr1)] >>
    ELSE << >>

Stitch(rings) == [rings |-> rings, rep |-> << >>, cur |-> 0, erased |-> 0, flag |-> FALSE]

\* Faulty variant of split_off_subring that takes the segments out of the ring
\* and does not keep them; with it in place C21 must fail.
split_off_subring_lost(st, r, from, to) ==
    [st EXCEPT !.rings[r] = remove_segments(@, from, to)]

\* the segments at positions from..to-1 of ring r become a ring of their own
split_off_subring(st, r, from, to) ==
    LET new_ring == ProtoRing(SubSeq(st.rings[r].segments, from, to - 1))
    IN  [st EXCEPT !.rings = Append([@ EXCEPT ![r] = remove_segments(@, from, to)],
                                    new_ring)]

\* Faulty variant of has_closed_subring_back that never splits; with it in
\* place C17 must fail.
has_closed_subring_back_never(st, r, nr) == [st EXCEPT !.flag = FALSE]

has_closed_subring_back(st, r, nr) ==
    LET segs == st.rings[r].segments
        n == Len(segs)
        hits == IF n < 3 THEN {}
                ELSE {j \in 2..(n - 1) : has_same_location(nr, segs[j].first)}
    IN  IF hits = {} THEN [st EXCEPT !.flag = FALSE]
        ELSE LET j == FirstIn(hits)
             IN  [split_off_subring(st, r, j, n + 1) EXCEPT
                     !.rep = @ \o DuplicateNodeReport(nr, segs[j].first),
                     !.flag = TRUE]

has_closed_subring_front(st, r, nr) ==
    LET segs == st.rings[r].segments
        n == Len(segs)
        hits == IF n < 3 THEN {}
                ELSE {j \in 2..(n - 1) : has_same_location(nr, segs[j].second)}
    IN  IF hits = {} THEN [st EXCEPT !.flag = FALSE]
        ELSE LET j == FirstIn(hits)
             IN  [split_off_subring(st, r, 1, j + 1) EXCEPT
                     !.rep = @ \o DuplicateNodeReport(nr, segs[j].second),
                     !.flag = TRUE]

\* m_rings.erase(it) while the caller holds ring r
EraseRing(st, r, it) ==
    [st EXCEPT !.rings = EraseRange(@, it, it + 1),
               !.cur = IF it < r THEN r - 1 ELSE r,
               !.erased = it,
               !.flag = TRUE]

\* Faulty variant of possibly_combine_rings_back that never merges; with it in
\* place C18 must fail.
possibly_combine_rings_back_never(st, r) == [st EXCEPT !.cur = r, !.flag = FALSE]

possibly_combine_rings_back(st, r) ==
    LET nr == get_segment_back(st.rings[r]).second
        Match1(it) == has_same_location(nr, get_segment_front(st.rings[it]).first)
        Match2(it) == has_same_location(nr, get_segment_back(st.rings[it]).second)
        hits == {it \in 1..Len(st.rings) :
                    it # r /\ ~closed(st.rings[it]) /\ (Match1(it) \/ Match2(it))}
    IN  IF hits = {} THEN [st EXCEPT !.cur = r, !.flag = FALSE]
        ELSE LET it == FirstIn(hits)
                 other == st.rings[it]
             IN  IF Match1(it)
                 THEN EraseRing(
                        [st EXCEPT !.rings[r] = merge_ring(@, other),
                                   !.rep = @ \o DuplicateNodeReport(
                                               nr, get_segment_front(other).first)],
                        r, it)
                 ELSE EraseRing(
                        [st EXCEPT !.rings[r] = merge_ring_reverse(@, other),
                                   !.rep = @ \o DuplicateNodeReport(
                                               nr, get_segment_back(other).second)],
                        r, it)

possibly_combine_rings_front(st, r) ==
    LET nr == get_segment_front(st.rings[r]).first
        Match1(it) == has_same_location(nr, get_segment_back(st.rings[it]).second)
        Match2(it) == has_same_location(nr, get_segment_front(st.rings[it]).first)
        hits == {it \in 1..Len(st.rings) :
                    it # r /\ ~closed(st.rings[it]) /\ (Match1(it) \/ Match2(it))}
    IN  IF hits = {} THEN [st EXCEPT !.cur = r, !.flag = FALSE]
        ELSE LET it == FirstIn(hits)
                 other == st.rings[it]
                 ring == st.rings[r]
             IN  IF Match1(it)
                 THEN \* swap_segments, then merge_ring
                      EraseRing(
                        [st EXCEPT !.rings[r] =
                                       [ring EXCEPT !.segments = other.segments \o @],
                                   !.rep = @ \o DuplicateNodeReport(
                                               nr, get_segment_back(other).second)],
                        r, it)
                 ELSE EraseRing(
                        [st EXCEPT !.rings[r] = merge_ring(reverse(ring), other),
                                   !.rep = @ \o DuplicateNodeReport(
                                               nr, get_segment_front(other).first)],
                        r, it)

\* position of the first segment of segs that equals s (std::find_first_of)
FindSegment(segs, s) == FirstIn({i \in 1..Len(segs) : SegEq(segs[i], s)})

check_for_closed_subring(st, r) ==
    LET ring == st.rings[r]
        segments == SortSegments(ring.segments)
        hits == {i \in 1..(Len(segments) - 1) :
                    has_same_location(segments[i].first, segments[i + 1].first)}
    IN  IF hits = {} THEN [st EXCEPT !.flag = FALSE]
        ELSE LET it == FirstIn(hits)
                 r1 == FindSegment(ring.segments, segments[it])
                 r2 == FindSegment(ring.segments, segments[it + 1])
                 lo == IF r1 < r2 THEN r1 ELSE r2
                 hi == IF r1 < r2 THEN r2 ELSE r1
             IN  [split_off_subring(st, r, lo, hi) EXCEPT
                     !.rep = @ \o DuplicateNodeReport(segments[it].first,
                                                      segments[it + 1].first),
                     !.flag = TRUE]

combine_rings_front(st, segment, r) ==
    LET st1 == [st EXCEPT !.rings[r] = add_segment_front(@, segment)]
        st2 == has_closed_subring_front(st1, r, segment.first)
        st3 == possibly_combine_rings_front(st2, r)
    IN  IF st3.flag THEN check_for_closed_subring(st3, st3.cur) ELSE st3

\* Faulty variant of combine_rings_back that attaches and splits and leaves
\* the other rings alone; with it in place C22 must fail.
combine_rings_back_attach_only(st, segment, r) ==
    [has_closed_subring_back([st EXCEPT !.rings[r] = add_segment_back(@, segment)],
                             r, segment.second)
        EXCEPT !.cur = r, !.flag = FALSE]

combine_rings_back(st, segment, r) ==
    LET st1 == [st EXCEPT !.rings[r] = add_segment_back(@, segment)]
        st2 == has_closed_subring_back(st1, r, segment.second)
        st3 == possibly_combine_rings_back(st2, r)
    IN  IF st3.flag THEN check_for_closed_subring(st3, st3.cur) ELSE st3

\* Faulty variant of AttachCase that tries the front of the ring before its
\* back; with it in place C16 must fail.
AttachCase_front_first(ring, segment) ==
    IF closed(ring) THEN 0
    ELSE IF has_same_location(get_segment_front(ring).first, segment.first) THEN 3
    ELSE IF has_same_location(get_segment_front(ring).first, segment.second) THEN 4
    ELSE IF has_same_location(get_segment_back(ring).second, segment.first) THEN 1
    ELSE IF has_same_location(get_segment_back(ring).second, segment.second) THEN 2
    ELSE 0

\* the test of add_to_existing_ring that ring r passes first, 0 if none
AttachCase(ring, segment) ==
    IF closed(ring) THEN 0
    ELSE IF has_same_location(get_segment_back(ring).second, segment.first) THEN 1
    ELSE IF has_same_location(get_segment_back(ring).second, segment.second) THEN 2
    ELSE IF has_same_location(get_segment_front(ring).first, segment.first) THEN 3
    ELSE IF has_same_location(get_segment_front(ring).first, segment.second) THEN 4
    ELSE 0

add_to_existing_ring(st, segment) ==
    LET hits == {r \in 1..Len(st.rings) : AttachCase(st.rings[r], segment) # 0}
    IN  IF hits = {} THEN [st EXCEPT !.flag = FALSE]
        ELSE LET r == FirstIn(hits)
                 ring == st.rings[r]
                 c == AttachCase(ring, segment)
                 back == get_segment_back(ring).second
                 front == get_segment_front(ring).first
                 With(nr1, nr2) == [st EXCEPT !.rep = @ \o DuplicateNodeReport(nr1, nr2)]
                 done ==
                   CASE c = 1 -> combine_rings_back(With(back, segment.first), segment, r)
                     [] c = 2 -> combine_rings_back(With(back, segment.second),
                                                    swap_locations(segment), r)
                     [] c = 3 -> combine_rings_front(With(front, segment.first),
                                                     swap_locations(segment), r)
                     [] c = 4 -> combine_rings_front(With(front, segment.second), segment, r)
             IN  [done EXCEPT !.flag = TRUE]

\* one round of the loop of create_rings over the segment list
AddSegment(rings, segment) ==
    LET NewRingUnlessAdded(st) ==
            IF st.flag THEN st
            ELSE [st EXCEPT !.rings = Append(@, ProtoRing(<< segment >>))]
    IN  NewRingUnlessAdded(add_to_existing_ring(Stitch(rings), segment))

-----------------------------------------------------------------------------
(* Assembler: the phases of create_rings after stitching *)

\* the reports of check_for_open_rings, one per ring that is not closed
OpenRingReports(rings) ==
    LET open == {i \in 1..Len(rings) : ~closed(rings[i])}
        Nth(k) == CHOOSE i \in open : Cardinality({j \in open : j < i}) = k - 1
    IN  [k \in 1..Cardinality(open) |->
            [kind |-> "ring_not_closed",
             front |-> Loc(get_segment_front(rings[Nth(k)]).first),
             back |-> Loc(get_segment_back(rings[Nth(k)]).second)]]

\* Faulty variant of check_for_open_rings that looks at the first ring only;
\* with it in place C5 must fail.
check_for_open_rings_first_only(rings) == rings # << >> /\ ~closed(rings[1])

check_for_open_rings(rings) == \E i \in 1..Len(rings) : ~closed(rings[i])

\* the segments the loop of check_inner_outer visits: it stops at the first
\* segment that starts to the right of min_node
ScannedSegments(list, min_loc) ==
    LET stop == {i \in 1..Len(list) : X(Loc(list[i].first)) > X(min_loc)}
    IN  IF stop = {} THEN list ELSE SubSeq(list, 1, FirstIn(stop) - 1)

\* Faulty variant of check_inner_outer that leaves `above` out; with it in
\* place C19 must fail.
check_inner_outer_count_only(ring, list) ==
    LET min_loc == Loc(min_node(ring))
        scan == ScannedSegments(list, min_loc)
        other == {i \in 1..Len(scan) : ~contains(ring, scan[i])}
        count == Cardinality({i \in other : to_left_of(scan[i], min_loc)})
    IN  IF count % 2 = 1 THEN set_inner(ring) ELSE ring

check_inner_outer(ring, list) ==
    LET min_loc == Loc(min_node(ring))
        scan == ScannedSegments(list, min_loc)
        other == {i \in 1..Len(scan) : ~contains(ring, scan[i])}
        count == Cardinality({i \in other : to_left_of(scan[i], min_loc)})
        above ==
            Cardinality({i \in other : /\ Loc(scan[i].first) = min_loc
                                       /\ Y(Loc(scan[i].second)) > Y(min_loc)})
          + Cardinality({i \in other : /\ Loc(scan[i].second) = min_loc
                                       /\ Y(Loc(scan[i].first)) > Y(min_loc)})
    IN  IF (count + (above % 2)) % 2 = 1 THEN set_inner(ring) ELSE ring

\* the body of the loop over m_rings in create_rings, for the ring at position i
\* a: [rings, outer_rings, inner_rings]
ClassifyRing(a, list, i) ==
    LET ring == check_inner_outer(a.rings[i], list)
    IN  IF ring.outer
        THEN [a EXCEPT !.rings[i] = IF ~is_cw(ring) THEN reverse(ring) ELSE ring,
                       !.outer_rings = Append(@, i)]
        ELSE [a EXCEPT !.rings[i] = IF is_cw(ring) THEN reverse(ring) ELSE ring,
                       !.inner_rings = Append(@, i)]

OrdersOf(s) ==
    { [i \in 1..Len(s) |-> s[f[i]]] :
        f \in {g \in [1..Len(s) -> 1..Len(s)] : \A i, j \in 1..Len(s) : i # j => g[i] # g[j]} }

\* Faulty variant of SortedByArea that leaves the outer rings in the order in
\* which they were classified; with it in place C7 must fail.
SortedByArea_unsorted(rings, ptrs) == {ptrs}

\* the results std::sort can leave in m_outer_rings: smallest area first, rings
\* of equal area in any order
SortedByArea(rings, ptrs) ==
    { q \in OrdersOf(ptrs) :
        \A i \in 1..(Len(q) - 1) : ~(area(rings[q[i + 1]]) < area(rings[q[i]])) }

\* Faulty variant of FirstOuterAround that takes the first outer ring without
\* asking is_in; with it in place C8 must fail.
FirstOuterAround_any(rings, outer_rings, inner) ==
    IF outer_rings = << >> THEN 0 ELSE outer_rings[1]

\* the outer ring inner ring `inner` is added to: the first one in the order
\* of outer_rings it is in, 0 if it is in none
FirstOuterAround(rings, outer_rings, inner) ==
    LET hits == {k \in 1..Len(outer_rings) : is_in(rings[inner], rings[outer_rings[k]])}
    IN  IF hits = {} THEN 0 ELSE outer_rings[FirstIn(hits)]

RECURSIVE AttachInners(_, _, _)
AttachInners(rings, outer_rings, inners) ==
    IF inners = << >> THEN rings
    ELSE LET o == IF Len(outer_rings) = 1 THEN outer_rings[1]
                  ELSE FirstOuterAround(rings, outer_rings, Head(inners))
         IN  AttachInners(
                 IF o = 0 THEN rings
                 ELSE [rings EXCEPT ![o] = add_inner_ring(@, Head(inners))],
                 outer_rings, Tail(inners))

\* the hole assignment of create_rings with m_outer_rings sorted into `order`
AssignInnerRings(a, order) ==
    IF Len(a.outer_rings) = 1
    THEN [a EXCEPT !.rings = AttachInners(a.rings, a.outer_rings, a.inner_rings)]
    ELSE [a EXCEPT !.outer_rings = order,
                   !.rings = AttachInners(a.rings, order, a.inner_rings)]

\* the segments of the rings ptrs point to, ring after ring
RECURSIVE SegmentsOfRings(_, _)
SegmentsOfRings(rings, ptrs) ==
    IF ptrs = << >> THEN << >>
    ELSE rings[Head(ptrs)].segments \o SegmentsOfRings(rings, Tail(ptrs))

RoleReport(kind, s) ==
    [kind |-> kind, way_id |-> s.way, a |-> Loc(s.first), b |-> Loc(s.second)]

\* check_inner_outer_roles: the mismatches it counts and the reports it makes
RoleMismatches(rings, outer_rings, inner_rings) ==
    LET NotOuter(s) == ~role_outer(s)
        NotInner(s) == ~role_inner(s)
        o == SelectSeq(SegmentsOfRings(rings, outer_rings), NotOuter)
        i == SelectSeq(SegmentsOfRings(rings, inner_rings), NotInner)
    IN  [k \in 1..Len(o) |-> RoleReport("role_should_be_outer", o[k])] \o
        [k \in 1..Len(i) |-> RoleReport("role_should_be_inner", i[k])]

\* Faulty variant of check_inner_outer_roles that counts the outer rings
\* only; with it in place C10 must fail.
check_inner_outer_roles_outer_only(mismatches, rings, outer_rings, inner_rings) ==
    mismatches + Len(RoleMismatches(rings, outer_rings, << >>))

check_inner_outer_roles(mismatches, rings, outer_rings, inner_rings) ==
    mismatches + Len(RoleMismatches(rings, outer_rings, inner_rings))

-----------------------------------------------------------------------------
(* Assembler: tags, rings and attributes of the area *)

\* every key/value pair of the input, in the order of std::map<std::string>
\* over key '\0' value
TagOrder == <<
    Tag("landuse", "forest"), Tag("name", "grove"), Tag("name", "wood"),
    Tag("natural", "water"), Tag("source", "survey"), Tag("type", "multipolygon") >>

\* KeyFilter(true) with the listed keys set to false
KeyFilter(tags, dropped) ==
    LET Keep(t) == t.key \notin dropped
    IN  SelectSeq(tags, Keep)

Occurrences(tags, t) == Cardinality({i \in 1..Len(tags) : tags[i] = t})

RECURSIVE CountInWays(_, _)
CountInWays(ways, t) ==
    IF ways = {} THEN 0
    ELSE LET w == CHOOSE x \in ways : TRUE
         IN  Occurrences(WayTags[w], t) + CountInWays(ways \ {w}, t)

\* Faulty variant of add_common_tags that takes every pair some way has; with
\* it in place C14 must fail.
add_common_tags_of_any_way(ways) ==
    LET Some(t) == CountInWays(ways, t) > 0
    IN  SelectSeq(TagOrder, Some)

\* the key/value pairs counted as often as there are ways, in map order
add_common_tags(ways) ==
    LET Common(t) == CountInWays(ways, t) = Cardinality(ways)
    IN  SelectSeq(TagOrder, Common)

add_tags_to_area_way(way) == WayTags[way]

add_tags_to_area_relation(relation, rings, outer_rings) ==
    LET count == Len(KeyFilter(relation.tags,
                     {"type", "created_by", "source", "note", "test:id", "test:section"}))
        ways == UNION {get_ways(rings[outer_rings[i]]) : i \in 1..Len(outer_rings)}
    IN  IF count > 0
        THEN KeyFilter(relation.tags, {"type"})
        ELSE IF Cardinality(ways) = 1
             THEN WayTags[CHOOSE w \in ways : TRUE]
             ELSE add_common_tags(ways)

RECURSIVE InnerRingsOf(_, _)
InnerRingsOf(rings, ptrs) ==
    IF ptrs = << >> THEN << >>
    ELSE << [type |-> "inner", nodes |-> RingNodes(rings[Head(ptrs)])] >> \o
         InnerRingsOf(rings, Tail(ptrs))

\* each outer ring, followed by its inner rings
RECURSIVE add_rings_to_area(_, _)
add_rings_to_area(rings, outer_rings) ==
    IF outer_rings = << >> THEN << >>
    ELSE << [type |-> "outer", nodes |-> RingNodes(rings[Head(outer_rings)])] >> \o
         InnerRingsOf(rings, rings[Head(outer_rings)].inner) \o
         add_rings_to_area(rings, Tail(outer_rings))

\* Faulty variant of initialize_area_from_object that drops id_offset; with it
\* in place C2 must fail.
initialize_area_from_object_no_offset(object, id_offset) ==
    [id |-> object.id * 2,
     from |-> [type |-> object.type, id |-> object.id],
     tags |-> << >>,
     rings |-> << >>]

\* The area the AreaBuilder starts with.  `from` records the object the area
\* was built from; it is not part of the entity.
initialize_area_from_object(object, id_offset) ==
    [id |-> object.id * 2 + id_offset,
     from |-> [type |-> object.type, id |-> object.id],
     tags |-> << >>,
     rings |-> << >>]

WayObject(w) == [type |-> "way", id |-> w, way |-> w]

ends_have_same_id(w) == WayNodes[w][1].ref = WayNodes[w][Len(WayNodes[w])].ref
is_closed(w) == ends_have_same_id(w)

Reported(cfg, rep) == IF cfg.problem_reporter THEN rep ELSE << >>

\* the reporter calls operator()(way) makes before it extracts the segments
WayCallReports(w) ==
    << [kind |-> "set_object", type |-> "way", id |-> w] >> \o
    ( IF ends_have_same_id(w) THEN << >>
      ELSE << [kind |-> "duplicate_node",
               id1 |-> WayNodes[w][1].ref,
               id2 |-> WayNodes[w][Len(WayNodes[w])].ref,
               loc |-> Loc(WayNodes[w][1])] >> )

-----------------------------------------------------------------------------
(* A whole run of a freshly constructed Assembler on a way, as the second    *)
(* pass of the relation entry point makes it.                                *)

\* the loop of create_rings over the segments from position i on
RECURSIVE StitchAll(_, _, _)
StitchAll(rings, list, i) ==
    IF i > Len(list) THEN [rings |-> rings, rep |-> << >>]
    ELSE LET Then(st) ==
                 LET Join(rest) == [rings |-> rest.rings, rep |-> st.rep \o rest.rep]
                 IN  Join(StitchAll(st.rings, list, i + 1))
         IN  Then(AddSegment(rings, list[i]))

RECURSIVE ClassifyAll(_, _, _)
ClassifyAll(a, list, i) ==
    IF i > Len(a.rings) THEN a
    ELSE ClassifyAll(ClassifyRing(a, list, i), list, i + 1)

\* the outcomes of create_rings() on a new Assembler holding the segments list0
CreateRingsFresh(list0) ==
    LET none == [ok |-> FALSE, rings |-> << >>, outer_rings |-> << >>,
                 inner_rings |-> << >>, mismatches |-> 0, rep |-> << >>]
        Finish(a, rep) ==
            [ok |-> TRUE, rings |-> a.rings, outer_rings |-> a.outer_rings,
             inner_rings |-> a.inner_rings,
             mismatches |-> check_inner_outer_roles(0, a.rings, a.outer_rings, a.inner_rings),
             rep |-> rep \o RoleMismatches(a.rings, a.outer_rings, a.inner_rings)]
        Holes(a, rep) ==
            {Finish(AssignInnerRings(a, order), rep) :
                 order \in SortedByArea(a.rings, a.outer_rings)}
        Stitched(s, list) ==
            IF check_for_open_rings(s.rings)
            THEN {[none EXCEPT !.rings = s.rings, !.rep = s.rep \o OpenRingReports(s.rings)]}
            ELSE IF Len(s.rings) = 1
            THEN {Finish([rings |-> s.rings, outer_rings |-> << 1 >>,
                          inner_rings |-> << >>], s.rep)}
            ELSE Holes(ClassifyAll([rings |-> s.rings, outer_rings |-> << >>,
                                    inner_rings |-> << >>], list, 1), s.rep)
        Sorted(list) ==
            IF find_intersections(list)
            THEN {[none EXCEPT !.rep = IntersectionReports(list)]}
            ELSE Stitched(StitchAll(<< >>, list, 1), list)
    IN  Sorted(erase_duplicate_segments(SortSegments(list0)))

\* operator()(way, out_buffer) of a new Assembler: the area it commits and the
\* reporter calls it makes
AssembleWay(w, cfg) ==
    LET init == initialize_area_from_object(WayObject(w), 0)
    IN  { [area |-> IF c.ok
                    THEN [init EXCEPT !.tags = add_tags_to_area_way(w),
                                      !.rings = add_rings_to_area(c.rings, c.outer_rings)]
                    ELSE init,
           rep |-> Reported(cfg, WayCallReports(w) \o c.rep)] :
          c \in CreateRingsFresh(extract_segments_from_way(<< >>, w, "outer")) }

SecondPassFilter == {"created_by", "source", "note", "test:id", "test:section"}

\* Faulty variant of InnerWayIsArea that does not look at the member's role;
\* with it in place C11 must fail.
InnerWayIsArea_any_role(member, area_tags) ==
    /\ is_closed(member.way)
    /\ Len(KeyFilter(WayTags[member.way], SecondPassFilter)) > 0
    /\ KeyFilter(WayTags[member.way], SecondPassFilter)
           # KeyFilter(area_tags, SecondPassFilter)

\* The member way is assembled as an area of its own.  std::equal is given
\* the end of the way's filtered tags only: when they outnumber the area's it
\* reads past the area's tags, but then the two distances differ and the
\* condition is true whatever that read returns.
InnerWayIsArea(member, area_tags) ==
    /\ member.role = "inner"
    /\ is_closed(member.way)
    /\ Len(WayTags[member.way]) > 0
    /\ Len(KeyFilter(WayTags[member.way], SecondPassFilter)) > 0
    /\ KeyFilter(WayTags[member.way], SecondPassFilter)
           # KeyFilter(area_tags, SecondPassFilter)

\* the loop over the members after the relation's area is committed
RECURSIVE SecondPassOutcomes(_, _, _)
SecondPassOutcomes(members, area_tags, cfg) ==
    IF members = << >> THEN {[areas |-> << >>, rep |-> << >>]}
    ELSE LET Then(rest) ==
                 IF InnerWayIsArea(Head(members), area_tags)
                 THEN { [areas |-> << o.area >> \o r.areas, rep |-> o.rep \o r.rep] :
                          o \in AssembleWay(Head(members).way, cfg), r \in rest }
                 ELSE rest
         IN  Then(SecondPassOutcomes(Tail(members), area_tags, cfg))

-----------------------------------------------------------------------------
(* The state machine *)

NoObject == [type |-> "none"]
NoArea == [id |-> 0, from |-> NoObject, tags |-> << >>, rings |-> << >>]

\* the member lists a relation can have: members in the order of their scene
MemberWays == UNION {SubSeqsOf(Scenes[k], MaxMembers) : k \in 1..Len(Scenes)}

Init ==
    /\ pc = "idle"
    /\ config \in {[problem_reporter |-> b] : b \in BOOLEAN}
    /\ input = NoObject
    /\ calls = 0
    /\ m_segment_list = << >>
    /\ m_rings = << >>
    /\ m_outer_rings = << >>
    /\ m_inner_rings = << >>
    /\ m_inner_outer_mismatches = 0
    /\ idx = 0
    /\ builder = NoArea
    /\ rings_ok = "pending"
    /\ out_buffer = << >>
    /\ out_before = << >>
    /\ reports = << >>
    /\ m_vector = << >>
    /\ client = [pc |-> "fill", id |-> 0, value |-> 0, before |-> << >>]

\* operator() up to the segment loop of create_rings: the reporter is told the
\* object, the segments are extracted, the builder is set up, the list is
\* sorted, freed of duplicates and searched for intersections
Begin(object, id_offset, extracted, rep) ==
    LET list == erase_duplicate_segments(SortSegments(extracted))
    IN  /\ input' = object
        /\ calls' = calls + 1
        /\ out_before' = out_buffer
        /\ builder' = initialize_area_from_object(object, id_offset)
        /\ m_segment_list' = list
        /\ idx' = 1
        /\ IF find_intersections(list)
           THEN /\ pc' = "commit"
                /\ rings_ok' = "failed"
                /\ reports' = Reported(config, rep \o IntersectionReports(list))
           ELSE /\ pc' = "stitch"
                /\ rings_ok' = "pending"
                /\ reports' = Reported(config, rep)
        /\ UNCHANGED << config, m_rings, m_outer_rings, m_inner_rings,
                        m_inner_outer_mismatches, out_buffer, m_vector,
                        client >>

CallWay(w) ==
    /\ pc = "idle"
    /\ Begin(WayObject(w), 0,
             extract_segments_from_way(m_segment_list, w, "outer"),
             WayCallReports(w))

\* The relation's tag list is first read by add_tags_to_area; until then the
\* model leaves it open (tags = << >>) and Emit draws it.
CallRelation(id, ws, roles) ==
    /\ pc = "idle"
    /\ LET members == [i \in 1..Len(ws) |-> [way |-> ws[i], role |-> roles[i]]]
       IN  Begin([type |-> "relation", id |-> id, members |-> members, tags |-> << >>], 1,
                 extract_segments_from_ways(m_segment_list, members),
                 << [kind |-> "set_object", type |-> "relation", id |-> id] >>)

\* a pointer into m_rings after m_rings.erase() of position k
ShiftPointer(ptr, k) ==
    IF k = 0 \/ ptr < k THEN ptr ELSE IF ptr = k THEN 0 ELSE ptr - 1

ShiftPointers(ptrs, k) == [i \in 1..Len(ptrs) |-> ShiftPointer(ptrs[i], k)]

\* one round of the segment loop of create_rings
StitchStep ==
    /\ pc = "stitch"
    /\ idx <= Len(m_segment_list)
    /\ \E st \in {AddSegment(m_rings, m_segment_list[idx])} :
           /\ m_rings' = [i \in 1..Len(st.rings) |->
                            [st.rings[i] EXCEPT !.inner = ShiftPointers(@, st.erased)]]
           /\ m_outer_rings' = ShiftPointers(m_outer_rings, st.erased)
           /\ m_inner_rings' = ShiftPointers(m_inner_rings, st.erased)
           /\ reports' = reports \o Reported(config, st.rep)
    /\ idx' = idx + 1
    /\ UNCHANGED << pc, config, input, calls, m_segment_list,
                    m_inner_outer_mismatches, builder, rings_ok, out_buffer,
                    out_before, m_vector, client >>

\* after the segment loop: check_for_open_rings, and the only ring is outer
CheckOpenRings ==
    /\ pc = "stitch"
    /\ idx > Len(m_segment_list)
    /\ IF check_for_open_rings(m_rings)
       THEN /\ pc' = "commit"
            /\ rings_ok' = "failed"
            /\ reports' = reports \o Reported(config, OpenRingReports(m_rings))
            /\ UNCHANGED m_outer_rings
       ELSE IF Len(m_rings) = 1
       THEN /\ pc' = "roles"
            /\ m_outer_rings' = Append(m_outer_rings, 1)
            /\ UNCHANGED << rings_ok, reports >>
       ELSE /\ pc' = "classify"
            /\ UNCHANGED << rings_ok, reports, m_outer_rings >>
    /\ idx' = 1
    /\ UNCHANGED << config, input, calls, m_segment_list, m_rings,
                    m_inner_rings, m_inner_outer_mismatches, builder,
                    out_buffer, out_before, m_vector, client >>

\* one round of the loop over m_rings: inner or outer, and the orientation
ClassifyStep ==
    /\ pc = "classify"
    /\ idx <= Len(m_rings)
    /\ LET a == ClassifyRing([rings |-> m_rings, outer_rings |-> m_outer_rings,
                              inner_rings |-> m_inner_rings], m_segment_list, idx)
       IN  /\ m_rings' = a.rings
           /\ m_outer_rings' = a.outer_rings
           /\ m_inner_rings' = a.inner_rings
    /\ idx' = idx + 1
    /\ UNCHANGED << pc, config, input, calls, m_segment_list,
                    m_inner_outer_mismatches, builder, rings_ok, out_buffer,
                    out_before, reports, m_vector, client >>

\* the inner rings are added to their outer rings
AssignHoles ==
    /\ pc = "classify"
    /\ idx > Len(m_rings)
    /\ \E order \in IF Len(m_outer_rings) = 1 THEN {m_outer_rings}
                    ELSE SortedByArea(m_rings, m_outer_rings) :
          LET a == AssignInnerRings([rings |-> m_rings, outer_rings |-> m_outer_rings,
                                     inner_rings |-> m_inner_rings], order)
          IN  /\ m_rings' = a.rings
              /\ m_outer_rings' = a.outer_rings
    /\ pc' = "roles"
    /\ UNCHANGED << config, input, calls, m_segment_list, m_inner_rings,
                    m_inner_outer_mismatches, idx, builder, rings_ok,
                    out_buffer, out_before, reports, m_vector, client >>

\* check_inner_outer_roles, and create_rings returns true
CheckRoles ==
    /\ pc = "roles"
    /\ m_inner_outer_mismatches' =
           check_inner_outer_roles(m_inner_outer_mismatches, m_rings,
                                   m_outer_rings, m_inner_rings)
    /\ reports' = reports \o
           Reported(config, RoleMismatches(m_rings, m_outer_rings, m_inner_rings))
    /\ rings_ok' = "ok"
    /\ pc' = "emit"
    /\ UNCHANGED << config, input, calls, m_segment_list, m_rings,
                    m_outer_rings, m_inner_rings, idx, builder, out_buffer,
                    out_before, m_vector, client >>

\* create_rings returned true: tags and rings are added to the area
Emit ==
    /\ pc = "emit"
    /\ \E tags \in IF input.type = "relation" THEN RelationTags ELSE {<< >>} :
          /\ input' = IF input.type = "relation" THEN [input EXCEPT !.tags = tags]
                       ELSE input
          /\ builder' =
               [builder EXCEPT
                   !.tags = IF input.type = "way" THEN add_tags_to_area_way(input.way)
                            ELSE add_tags_to_area_relation(input', m_rings, m_outer_rings),
                   !.rings = add_rings_to_area(m_rings, m_outer_rings)]
    /\ pc' = "commit"
    /\ UNCHANGED << config, calls, m_segment_list, m_rings, m_outer_rings,
                    m_inner_rings, m_inner_outer_mismatches, idx, rings_ok,
                    out_buffer, out_before, reports, m_vector, client >>

\* the builder goes out of scope and out_buffer.commit() is called
Commit ==
    /\ pc = "commit"
    /\ out_buffer' = Append(out_buffer, builder)
    /\ pc' = IF input.type = "relation" THEN "second" ELSE "done"
    /\ UNCHANGED << config, input, calls, m_segment_list, m_rings,
                    m_outer_rings, m_inner_rings, m_inner_outer_mismatches, idx,
                    builder, rings_ok, out_before, reports, m_vector, client >>

\* the relation entry point looks at its "inner" members once more
SecondPass ==
    /\ pc = "second"
    /\ \E res \in IF m_inner_outer_mismatches = 0
                  THEN SecondPassOutcomes(input.members,
                                          out_buffer[Len(out_buffer)].tags, config)
                  ELSE {[areas |-> << >>, rep |-> << >>]} :
          /\ out_buffer' = out_buffer \o res.areas
          /\ reports' = reports \o res.rep
    /\ pc' = "done"
    /\ UNCHANGED << config, input, calls, m_segment_list, m_rings,
                    m_outer_rings, m_inner_rings, m_inner_outer_mismatches, idx,
                    builder, rings_ok, out_before, m_vector, client >>

Next ==
    \/ \E w \in Ways : CallWay(w)
    \/ \E id \in 1..MaxRelId, ws \in MemberWays :
          \E roles \in [1..Len(ws) -> Roles] : CallRelation(id, ws, roles)
    \/ StitchStep
    \/ CheckOpenRings
    \/ ClassifyStep
    \/ AssignHoles
    \/ CheckRoles
    \/ Emit
    \/ Commit
    \/ SecondPass

Spec == Init /\ [][Next]_vars

-----------------------------------------------------------------------------
(* One Assembler instance used for several inputs.  The members of the       *)
(* class have initialisers and operator() assigns none of them, so a later   *)
(* call starts from what the earlier one left behind.                        *)

\* the member lists of the first call on a reused instance
ReuseMemberWays == {<< 1, 2 >>}

\* operator()(way, out_buffer) on an instance that has returned from a call
CallWayAgain(w) ==
    /\ pc = "done"
    /\ calls < MaxCalls
    /\ Begin(WayObject(w), 0,
             extract_segments_from_way(m_segment_list, w, "outer"),
             WayCallReports(w))

NextReuse ==
    \/ \E w \in Ways : CallWay(w)
    \/ \E id \in 1..MaxRelId, ws \in ReuseMemberWays :
          \E roles \in [1..Len(ws) -> Roles] : CallRelation(id, ws, roles)
    \/ \E w \in Ways : CallWayAgain(w)
    \/ StitchStep
    \/ CheckOpenRings
    \/ ClassifyStep
    \/ AssignHoles
    \/ CheckRoles
    \/ Emit
    \/ Commit
    \/ SecondPass

SpecReuse == Init /\ [][NextReuse]_vars

-----------------------------------------------------------------------------
(* VectorBasedSparseMultimap: a vector of (id, value) pairs.  Its user fills  *)
(* it with set(), sorts it, and then takes entries out with remove() and      *)
(* erase_removed().                                                           *)

\* the ids and the values the user stores
MultimapIds == 1..2
MultimapValues == 0..2

element_type(id, value) == [first |-> id, second |-> value]

\* osmium::index::empty_value<TValue>() of an integral TValue
empty_value == 0

is_removed(element) == element.second = empty_value

\* operator< of std::pair
ElementLess(a, b) == a.first < b.first \/ (a.first = b.first /\ a.second < b.second)

RECURSIVE SortElements(_)
SortElements(v) ==
    IF v = << >> THEN << >>
    ELSE LET least == CHOOSE i \in 1..Len(v) :
                          \A j \in 1..Len(v) : ~ElementLess(v[j], v[i])
         IN  << v[least] >> \o SortElements(EraseRange(v, least, least + 1))

\* the positions std::equal_range finds in a vector ordered by id
get_all(v, id) == {i \in 1..Len(v) : v[i].first = id}

\* remove(): the first entry of the id with the value gets the value 0
remove(v, id, value) ==
    LET hits == {i \in get_all(v, id) : v[i].second = value}
    IN  IF hits = {} THEN v
        ELSE [v EXCEPT ![FirstIn(hits)].second = 0]

\* erase_removed(): std::remove_if keeps the other entries in their order
erase_removed(v) ==
    LET Kept(element) == ~is_removed(element)
    IN  SelectSeq(v, Kept)

Set(id, value) ==
    /\ client.pc = "fill"
    /\ Len(m_vector) < MaxEntries
    /\ m_vector' = Append(m_vector, element_type(id, value))
    /\ UNCHANGED << pc, config, input, calls, m_segment_list, m_rings, m_outer_rings,
                    m_inner_rings, m_inner_outer_mismatches, idx, builder, rings_ok,
                    out_buffer, out_before, reports, client >>

Sort ==
    /\ client.pc = "fill"
    /\ m_vector' = SortElements(m_vector)
    /\ client' = [client EXCEPT !.pc = "sorted"]
    /\ UNCHANGED << pc, config, input, calls, m_segment_list, m_rings, m_outer_rings,
                    m_inner_rings, m_inner_outer_mismatches, idx, builder, rings_ok,
                    out_buffer, out_before, reports >>

Remove(id, value) ==
    /\ client.pc = "sorted"
    /\ m_vector' = remove(m_vector, id, value)
    /\ client' = [pc |-> "removed", id |-> id, value |-> value, before |-> m_vector]
    /\ UNCHANGED << pc, config, input, calls, m_segment_list, m_rings, m_outer_rings,
                    m_inner_rings, m_inner_outer_mismatches, idx, builder, rings_ok,
                    out_buffer, out_before, reports >>

EraseRemoved ==
    /\ client.pc = "removed"
    /\ m_vector' = erase_removed(m_vector)
    /\ client' = [client EXCEPT !.pc = "erased"]
    /\ UNCHANGED << pc, config, input, calls, m_segment_list, m_rings, m_outer_rings,
                    m_inner_rings, m_inner_outer_mismatches, idx, builder, rings_ok,
                    out_buffer, out_before, reports >>

NextMultimap ==
    \/ \E id \in MultimapIds, value \in MultimapValues : Set(id, value)
    \/ Sort
    \/ \E id \in MultimapIds, value \in MultimapValues : Remove(id, value)
    \/ EraseRemoved

SpecMultimap == Init /\ [][NextMultimap]_vars

-----------------------------------------------------------------------------
(* Properties *)

\* C1: when create_rings fails (an intersection was found or a ring stayed
\* open), the call leaves the committed entities of the output buffer as they
\* were before it.
C1_NoAreaWhenCreateRingsFails ==
    (rings_ok = "failed" /\ pc \in {"second", "done"}) => out_buffer = out_before

\* C2: every area in the output buffer has id 2 * source id + 0 when built
\* from a way and 2 * source id + 1 when built from a relation; so the parity
\* of the id tells the kind of source and no way area shares its id with a
\* relation area.
C2_AreaIdEncodesSource ==
    /\ \A i \in 1..Len(out_buffer) :
          LET a == out_buffer[i]
          IN  /\ a.from.type \in {"way", "relation"}
              /\ a.from.type = "way" => a.id = 2 * a.from.id + 0
              /\ a.from.type = "relation" => a.id = 2 * a.from.id + 1
              /\ (a.id % 2 = 0) <=> (a.from.type = "way")
    /\ \A i, j \in 1..Len(out_buffer) :
          out_buffer[i].from.type # out_buffer[j].from.type
              => out_buffer[i].id # out_buffer[j].id

\* the output buffer holds the area of a relation and the area of one of its
\* member ways
C2_Witness ==
    /\ pc = "done"
    /\ \E i, j \in 1..Len(out_buffer) :
          /\ out_buffer[i].from.type = "relation"
          /\ out_buffer[j].from.type = "way"

\* C3: when operator() starts on an instance, whether new or used before, the
\* ring list, the outer-ring vector and the inner-ring vector are empty and
\* the role-mismatch counter is zero before the first segment is stitched.
C3_StateResetAtCallStart ==
    (pc = "stitch" /\ idx = 1) =>
        /\ m_rings = << >>
        /\ m_outer_rings = << >>
        /\ m_inner_rings = << >>
        /\ m_inner_outer_mismatches = 0

\* C5: create_rings passes the check after stitching only if every ring is
\* closed, and fails there only if some ring is open; when it fails, the
\* reporter has received report_ring_not_closed once per open ring, in the
\* order of the ring list, with the first location of the ring's front segment
\* and the second location of its back segment, and nothing for closed rings.
C5_OpenRingsFailAndAreReported ==
    LET IsOpen(r) == ~closed(r)
        IsNotClosedReport(r) == r.kind = "ring_not_closed"
        open == SelectSeq(m_rings, IsOpen)
        stitched_and_failed == rings_ok = "failed" /\ m_rings # << >>
    IN  /\ (pc \in {"classify", "roles", "emit"} \/ rings_ok = "ok")
              => \A i \in 1..Len(m_rings) : closed(m_rings[i])
        /\ stitched_and_failed => open # << >>
        /\ (stitched_and_failed /\ pc = "commit") =>
              SelectSeq(reports, IsNotClosedReport) =
                  IF config.problem_reporter
                  THEN [k \in 1..Len(open) |->
                          [kind |-> "ring_not_closed",
                           front |-> Loc(open[k].segments[1].first),
                           back |-> Loc(open[k].segments[Len(open[k].segments)].second)]]
                  ELSE << >>
        /\ ~stitched_and_failed => SelectSeq(reports, IsNotClosedReport) = << >>

\* create_rings has failed on a ring list with a closed and an open ring, and
\* the reporter was told
C5_Witness ==
    /\ pc = "commit"
    /\ rings_ok = "failed"
    /\ \E i, j \in 1..Len(m_rings) : closed(m_rings[i]) /\ ~closed(m_rings[j])
    /\ \E k \in 1..Len(reports) : reports[k].kind = "ring_not_closed"

\* C6: after a successful create_rings every ring of the outer-ring vector is
\* clockwise and every ring of the inner-ring vector is counter-clockwise,
\* whether there is one ring or several.
C6_RingsOriented ==
    rings_ok = "ok" =>
        /\ \A k \in 1..Len(m_outer_rings) : is_cw(m_rings[m_outer_rings[k]])
        /\ \A k \in 1..Len(m_inner_rings) : ~is_cw(m_rings[m_inner_rings[k]])

\* C7: after a successful create_rings each inner ring is in the inner list of
\* at most one outer ring, and at most once; with exactly one outer ring each
\* inner ring is in its list; otherwise inner ring I is in the list of outer
\* ring O exactly if I.is_in(O) and no outer ring of smaller area has
\* I.is_in, so an inner ring with is_in for no outer ring is in no list.
C7_HoleAssignment ==
    rings_ok = "ok" =>
        LET outers == Range(m_outer_rings)
            inners == Range(m_inner_rings)
            Attached(I, O) == \E k \in 1..Len(m_rings[O].inner) : m_rings[O].inner[k] = I
            Times(I, O) == Cardinality({k \in 1..Len(m_rings[O].inner) :
                                           m_rings[O].inner[k] = I})
        IN  /\ \A I \in inners :
                  /\ Cardinality({O \in outers : Attached(I, O)}) <= 1
                  /\ \A O \in outers : Times(I, O) <= 1
            /\ Len(m_outer_rings) = 1 =>
                  \A I \in inners : Attached(I, m_outer_rings[1])
            /\ Len(m_outer_rings) # 1 =>
                  \A I \in inners : \A O \in outers :
                      Attached(I, O) <=>
                          /\ is_in(m_rings[I], m_rings[O])
                          /\ \A P \in outers :
                                is_in(m_rings[I], m_rings[P])
                                    => ~(area(m_rings[P]) < area(m_rings[O]))

\* an inner ring that is in two outer rings has been attached
C7_Witness ==
    /\ rings_ok = "ok"
    /\ \E I \in Range(m_inner_rings) :
          /\ Cardinality({O \in Range(m_outer_rings) :
                             is_in(m_rings[I], m_rings[O])}) >= 2
          /\ \E O \in Range(m_outer_rings) : I \in Range(m_rings[O].inner)

\* C8 as stated: after a successful create_rings without role mismatches the
\* min_node of every inner ring lies inside exactly one outer ring, and that
\* is the outer ring the inner ring is attached to.
C8_MinNodeInExactlyOneOuter ==
    (rings_ok = "ok" /\ m_inner_outer_mismatches = 0) =>
        \A I \in Range(m_inner_rings) :
            LET around == {O \in Range(m_outer_rings) :
                              PointInRing(Loc(min_node(m_rings[I])), m_rings[O])}
            IN  /\ Cardinality(around) = 1
                /\ \A O \in around : I \in Range(m_rings[O].inner)

\* C8, amended: after a successful create_rings without role mismatches and
\* with two or more outer rings, the min_node of an attached inner ring lies
\* inside the outer ring it is attached to, every other outer ring it lies
\* inside has a larger area, and an inner ring whose min_node lies inside some
\* outer ring is attached.  The min_node may lie inside several outer rings
\* (an outer ring inside a hole of another) or inside none.
C8_MinNodeInAttachedOuter ==
    (rings_ok = "ok" /\ m_inner_outer_mismatches = 0 /\ Len(m_outer_rings) >= 2) =>
        \A I \in Range(m_inner_rings) :
            LET p == Loc(min_node(m_rings[I]))
                around == {O \in Range(m_outer_rings) : PointInRing(p, m_rings[O])}
                holders == {O \in Range(m_outer_rings) : I \in Range(m_rings[O].inner)}
            IN  /\ holders \subseteq around
                /\ \A O \in holders : \A P \in around \ {O} :
                      area(m_rings[P]) > area(m_rings[O])
                /\ around # {} => holders # {}

\* without role mismatches, the min_node of an attached inner ring lies inside
\* two outer rings
C8_Witness ==
    /\ rings_ok = "ok"
    /\ m_inner_outer_mismatches = 0
    /\ \E I \in Range(m_inner_rings) :
          /\ Cardinality({O \in Range(m_outer_rings) :
                PointInRing(Loc(min_node(m_rings[I])), m_rings[O])}) = 2
          /\ \E O \in Range(m_outer_rings) : I \in Range(m_rings[O].inner)

\* C9: when there are two or more outer rings and an inner ring is in none of
\* them, a configured reporter is told by the time the holes are assigned,
\* create_rings succeeds, the area is committed, and the ring is in no ring
\* sequence of the area.
C9_OrphanInnerReported ==
    LET orphans == {I \in Range(m_inner_rings) :
                       \A O \in Range(m_outer_rings) : ~is_in(m_rings[I], m_rings[O])}
        case == Len(m_outer_rings) >= 2 /\ orphans # {}
    IN  /\ (pc = "roles" /\ case /\ config.problem_reporter) =>
              \E k \in 1..Len(reports) :
                  reports[k].kind \notin {"set_object", "duplicate_node"}
        /\ (pc \in {"second", "done"} /\ rings_ok = "ok" /\ case) =>
              /\ Len(out_buffer) > Len(out_before)
              /\ \A I \in orphans :
                    \A k \in 1..Len(out_buffer[Len(out_before) + 1].rings) :
                        out_buffer[Len(out_before) + 1].rings[k].nodes
                            # RingNodes(m_rings[I])

\* C10: after a successful create_rings on a new instance the role-mismatch
\* counter is the number of segments of outer rings whose role is not "outer"
\* plus the number of segments of inner rings whose role is not "inner"; a
\* configured reporter has received exactly one report_role_should_be_outer
\* or report_role_should_be_inner per such segment, with the segment's way id
\* and its two locations; and the area is committed with its rings whatever
\* the count is.
C10_RoleMismatchesCountedAndReported ==
    LET WrongIn(ptrs, role) ==
            UNION {{<< R, j >> : j \in {i \in 1..Len(m_rings[R].segments) :
                                           m_rings[R].segments[i].role # role}} :
                   R \in Range(ptrs)}
        OuterSegs == WrongIn(m_outer_rings, "outer")
        InnerSegs == WrongIn(m_inner_rings, "inner")
        ReportOf(kind, q) ==
            [kind |-> kind,
             way_id |-> m_rings[q[1]].segments[q[2]].way,
             a |-> Loc(m_rings[q[1]].segments[q[2]].first),
             b |-> Loc(m_rings[q[1]].segments[q[2]].second)]
        Count(r) == Cardinality({k \in 1..Len(reports) : reports[k] = r})
        OfKind(kind) == Cardinality({k \in 1..Len(reports) : reports[k].kind = kind})
    IN  /\ pc = "emit" =>
              /\ rings_ok = "ok"
              /\ m_inner_outer_mismatches = Cardinality(OuterSegs) + Cardinality(InnerSegs)
              /\ config.problem_reporter =>
                    /\ \A q \in OuterSegs : Count(ReportOf("role_should_be_outer", q)) = 1
                    /\ \A q \in InnerSegs : Count(ReportOf("role_should_be_inner", q)) = 1
                    /\ OfKind("role_should_be_outer") = Cardinality(OuterSegs)
                    /\ OfKind("role_should_be_inner") = Cardinality(InnerSegs)
              /\ ~config.problem_reporter => reports = << >>
        /\ (pc \in {"second", "done"} /\ rings_ok = "ok") =>
              /\ Len(out_buffer) > Len(out_before)
              /\ out_buffer[Len(out_before) + 1].rings =
                     add_rings_to_area(m_rings, m_outer_rings)
              /\ Len(m_outer_rings) > 0 => out_buffer[Len(out_before) + 1].rings # << >>

\* an area with rings has been committed although segments of an outer and of
\* an inner ring have the wrong role and were reported
C10_Witness ==
    /\ pc = "done"
    /\ rings_ok = "ok"
    /\ m_inner_outer_mismatches >= 2
    /\ \E k \in 1..Len(reports) : reports[k].kind = "role_should_be_outer"
    /\ \E k \in 1..Len(reports) : reports[k].kind = "role_should_be_inner"
    /\ out_buffer[Len(out_before) + 1].rings # << >>

\* C11: when a relation call has returned, the areas committed after the
\* relation's area are areas of member ways: none if the role-mismatch counter
\* is not zero; otherwise one for each member, in member order, whose role is
\* "inner", whose way is closed, which has a tag with a key other than
\* created_by, source, note, test:id, test:section, and whose tags without
\* those keys differ from the tags of the relation's area without those keys.
C11_SecondPassEmitsQualifyingInnerWays ==
    (pc = "done" /\ input.type = "relation") =>
        LET dropped == {"created_by", "source", "note", "test:id", "test:section"}
            Kept(t) == t.key \notin dropped
            area_tags == SelectSeq(out_buffer[Len(out_before) + 1].tags, Kept)
            Qualifies(m) ==
                /\ m.role = "inner"
                /\ WayNodes[m.way][1].ref = WayNodes[m.way][Len(WayNodes[m.way])].ref
                /\ \E i \in 1..Len(WayTags[m.way]) : Kept(WayTags[m.way][i])
                /\ SelectSeq(WayTags[m.way], Kept) # area_tags
            expected == IF m_inner_outer_mismatches = 0
                        THEN SelectSeq(input.members, Qualifies)
                        ELSE << >>
            later == SubSeq(out_buffer, Len(out_before) + 2, Len(out_buffer))
        IN  /\ out_buffer[Len(out_before) + 1].from = [type |-> "relation", id |-> input.id]
            /\ Len(later) = Len(expected)
            /\ \A k \in 1..Len(later) :
                  later[k].from = [type |-> "way", id |-> expected[k].way]

\* a relation call without role mismatches has returned; one of its inner
\* members was committed as an area of its own and another was not
C11_Witness ==
    /\ pc = "done"
    /\ input.type = "relation"
    /\ rings_ok = "ok"
    /\ m_inner_outer_mismatches = 0
    /\ Len(out_buffer) = Len(out_before) + 2
    /\ Cardinality({i \in 1..Len(input.members) : input.members[i].role = "inner"}) >= 2

\* C12: when create_rings failed for a relation (an intersection was found or
\* a ring stayed open), the call commits no area built from a member way.
C12_NoSecondPassAfterAbort ==
    (pc = "done" /\ input.type = "relation" /\ rings_ok = "failed") =>
        \A k \in (Len(out_before) + 1)..Len(out_buffer) :
            out_buffer[k].from.type # "way"

\* C13: when create_rings succeeded for a relation and some tag of the
\* relation has a key other than type, created_by, source, note, test:id,
\* test:section, the tags of the relation's area are exactly the relation's
\* tags with such keys, in the relation's order.
C13_AreaTagsAreFilteredRelationTags ==
    (pc \in {"second", "done"} /\ input.type = "relation" /\ rings_ok = "ok") =>
        LET Survives(t) == t.key \notin {"type", "created_by", "source", "note",
                                         "test:id", "test:section"}
            surviving == SelectSeq(input.tags, Survives)
        IN  surviving # << >> => out_buffer[Len(out_before) + 1].tags = surviving

\* C14: when create_rings succeeded for a relation none of whose tags has a
\* key other than type, created_by, source, note, test:id, test:section, the
\* tags of the area come from the ways that have a segment in an outer ring:
\* with one such way they are that way's tags; with two or more they are the
\* key/value pairs every one of these ways has, each once.  Ways with segments
\* in inner rings only have no part in it.
C14_AreaTagsFromOuterWays ==
    (pc \in {"second", "done"} /\ input.type = "relation" /\ rings_ok = "ok") =>
        LET Survives(t) == t.key \notin {"type", "created_by", "source", "note",
                                         "test:id", "test:section"}
            ways == UNION {{m_rings[O].segments[j].way :
                               j \in 1..Len(m_rings[O].segments)} :
                           O \in Range(m_outer_rings)}
            tags == out_buffer[Len(out_before) + 1].tags
            common == {t \in UNION {Range(WayTags[w]) : w \in ways} :
                          \A w \in ways : t \in Range(WayTags[w])}
        IN  SelectSeq(input.tags, Survives) = << >> =>
                /\ Cardinality(ways) = 1 => \A w \in ways : tags = WayTags[w]
                /\ Cardinality(ways) >= 2 =>
                      /\ Range(tags) = common
                      /\ Len(tags) = Cardinality(common)

\* the area of a relation has got the tags its two outer ways share; the ways
\* have another key in common, with different values
C14_Witness ==
    /\ pc = "done"
    /\ input.type = "relation"
    /\ rings_ok = "ok"
    /\ input.tags = << Tag("type", "multipolygon") >>
    /\ out_buffer[Len(out_before) + 1].tags = << Tag("landuse", "forest") >>
    /\ Len(m_outer_rings) = 2
    /\ \A k \in 1..2 : \E i \in 1..Len(m_rings[m_outer_rings[k]].segments) :
          \E t \in Range(WayTags[m_rings[m_outer_rings[k]].segments[i].way]) :
              t.key = "name"
    /\ m_inner_rings # << >>

\* C15: stitching matches endpoints by location, never by id.  While a
\* relation is assembled, every duplicate-node report names two different ids
\* of node refs that lie at the reported location; and create_rings ends as it
\* does on the same segments with every node ref replaced by the node ref of
\* the least id at its location: it fails on the one iff it fails on the other,
\* the rings of the area run through the same locations, and the reports are
\* the same once the duplicate-node reports are left out.
C15_StitchingMatchesByLocation ==
    LET AllNodeRefs == UNION {Range(WayNodes[w]) : w \in Ways}
        Canon(nr) == CHOOSE n \in AllNodeRefs :
                        /\ Loc(n) = Loc(nr)
                        /\ \A m \in AllNodeRefs : Loc(m) = Loc(nr) => n.ref <= m.ref
        canonical == [i \in 1..Len(m_segment_list) |->
                         [m_segment_list[i] EXCEPT !.first = Canon(@),
                                                   !.second = Canon(@)]]
        Locs(rings) == [k \in 1..Len(rings) |->
                           [type |-> rings[k].type,
                            locs |-> [i \in 1..Len(rings[k].nodes) |->
                                         Loc(rings[k].nodes[i])]]]
        NoDuplicate(r) == r.kind # "duplicate_node"
    IN  /\ input.type = "relation" =>
              \A k \in 1..Len(reports) :
                  reports[k].kind = "duplicate_node" =>
                      /\ reports[k].id1 # reports[k].id2
                      /\ \E n1, n2 \in AllNodeRefs :
                            /\ n1.ref = reports[k].id1
                            /\ n2.ref = reports[k].id2
                            /\ Loc(n1) = reports[k].loc
                            /\ Loc(n2) = reports[k].loc
        /\ (pc = "commit" /\ input.type = "relation") =>
              \E c \in CreateRingsFresh(canonical) :
                  /\ c.ok <=> rings_ok = "ok"
                  /\ Locs(builder.rings) =
                         IF c.ok THEN Locs(add_rings_to_area(c.rings, c.outer_rings))
                         ELSE << >>
                  /\ SelectSeq(reports, NoDuplicate) =
                         Reported(config,
                             << [kind |-> "set_object", type |-> "relation",
                                 id |-> input.id] >> \o c.rep)

\* the two halves of a square, which meet at nodes with different ids, have
\* been stitched into a closed ring: the area has its ring and both meeting
\* points were reported
C15_Witness ==
    /\ pc = "commit"
    /\ input.type = "relation"
    /\ rings_ok = "ok"
    /\ Len(builder.rings) = 1
    /\ Cardinality({k \in 1..Len(reports) : reports[k].kind = "duplicate_node"}) = 2
    /\ \E k \in 1..Len(reports) :
          /\ reports[k].kind = "duplicate_node"
          /\ {reports[k].id1, reports[k].id2} = {35, 36}

\* C16: a round of the segment loop offers the segment to the rings in the
\* order of the ring list.  Closed rings stay as they are.  The first open
\* ring one of whose ends lies at an end of the segment takes it, by the first
\* of these tests that holds: (1) back.second at seg.first: appended as it
\* is; (2) back.second at seg.second: endpoints swapped, appended; (3)
\* front.first at seg.first: endpoints swapped, prepended; (4) front.first at
\* seg.second: prepended as it is.  The ring is then a connected chain, and the
\* ring list is what subring split and ring merge make of it.  When no open
\* ring takes the segment, a ring holding just the segment is appended to the
\* ring list.
C16_AttachRule ==
    [][ (pc = "stitch" /\ idx' = idx + 1) =>
        LET seg == m_segment_list[idx]
            Segs(rings) == [i \in 1..Len(rings) |-> rings[i].segments]
            Front(i) == Loc(m_rings[i].segments[1].first)
            Back(i) == Loc(m_rings[i].segments[Len(m_rings[i].segments)].second)
            Open(i) == Front(i) # Back(i)
            Test(i) == IF Back(i) = Loc(seg.first) THEN 1
                       ELSE IF Back(i) = Loc(seg.second) THEN 2
                       ELSE IF Front(i) = Loc(seg.first) THEN 3
                       ELSE IF Front(i) = Loc(seg.second) THEN 4
                       ELSE 0
            accepting == {i \in 1..Len(m_rings) : Open(i) /\ Test(i) # 0}
            swapped == [seg EXCEPT !.first = seg.second, !.second = seg.first]
            Attached(i) == CASE Test(i) = 1 -> Append(m_rings[i].segments, seg)
                             [] Test(i) = 2 -> Append(m_rings[i].segments, swapped)
                             [] Test(i) = 3 -> << swapped >> \o m_rings[i].segments
                             [] Test(i) = 4 -> << seg >> \o m_rings[i].segments
            Chain(segs) == \A k \in 1..(Len(segs) - 1) :
                               Loc(segs[k].second) = Loc(segs[k + 1].first)
            After(st, i) == IF Test(i) \in {1, 2}
                            THEN possibly_combine_rings_back(
                                     has_closed_subring_back(
                                         st, i, get_segment_back(st.rings[i]).second),
                                     i)
                            ELSE possibly_combine_rings_front(
                                     has_closed_subring_front(
                                         st, i, get_segment_front(st.rings[i]).first),
                                     i)
            Rechecked(st) == IF st.flag THEN check_for_closed_subring(st, st.cur) ELSE st
        IN  /\ \A i \in 1..Len(m_rings) :
                  ~Open(i) => \E j \in 1..Len(m_rings') :
                                  m_rings'[j].segments = m_rings[i].segments
            /\ accepting = {} =>
                  Segs(m_rings') = Append(Segs(m_rings), << seg >>)
            /\ accepting # {} =>
                  \E r \in accepting :
                      /\ \A i \in accepting : r <= i
                      /\ Chain(Attached(r))
                      /\ Segs(m_rings') =
                            Segs(Rechecked(After(
                                Stitch([m_rings EXCEPT ![r].segments = Attached(r)]),
                                r)).rings)
      ]_vars

\* the segment loop has come to its end: a ring was opened for a segment no
\* open ring took, and segments were attached until every ring was a closed
\* chain
C16_Witness ==
    /\ pc = "stitch"
    /\ idx = Len(m_segment_list) + 1
    /\ Len(m_rings) >= 2
    /\ \A i \in 1..Len(m_rings) :
          /\ Len(m_rings[i].segments) >= 3
          /\ closed(m_rings[i])
          /\ connected(m_rings[i])

\* C17: when a segment has been attached to the back (front) of a ring and
\* the ring's new free end lies at an interior vertex of the ring, the ring is
\* split there: the segments from that vertex to the back (from the front to
\* that vertex) become a new ring at the end of the ring list, which is
\* closed, and the other segments stay in the ring as a connected chain that
\* is not empty.  The ring list is what ring merge makes of that.  When the
\* free end lies at no interior vertex, nothing is split off.
C17_SubringSplit ==
    [][ (pc = "stitch" /\ idx' = idx + 1) =>
        LET seg == m_segment_list[idx]
            Segs(rings) == [i \in 1..Len(rings) |-> rings[i].segments]
            hit == {i \in 1..Len(m_rings) : AttachCase(m_rings[i], seg) # 0}
            Chain(segs) == \A k \in 1..(Len(segs) - 1) :
                               Loc(segs[k].second) = Loc(segs[k + 1].first)
            Closed(segs) == Loc(segs[1].first) = Loc(segs[Len(segs)].second)
            Merged(st) == IF st.flag THEN check_for_closed_subring(st, st.cur) ELSE st
            Back(r, segs) ==
                LET n == Len(segs)
                    free == Loc(segs[n].second)
                    interior == {k \in 2..n : Loc(segs[k].first) = free}
                    Rest(rings) ==
                        Segs(Merged(possibly_combine_rings_back(Stitch(rings), r)).rings)
                IN  IF interior = {}
                    THEN Segs(m_rings') = Rest([m_rings EXCEPT ![r].segments = segs])
                    ELSE \E k \in interior :
                            /\ Closed(SubSeq(segs, k, n))
                            /\ SubSeq(segs, 1, k - 1) # << >>
                            /\ Chain(SubSeq(segs, 1, k - 1))
                            /\ Segs(m_rings') =
                                  Rest(Append(
                                      [m_rings EXCEPT ![r].segments = SubSeq(segs, 1, k - 1)],
                                      ProtoRing(SubSeq(segs, k, n))))
            Front(r, segs) ==
                LET n == Len(segs)
                    free == Loc(segs[1].first)
                    interior == {k \in 1..(n - 1) : Loc(segs[k].second) = free}
                    Rest(rings) ==
                        Segs(Merged(possibly_combine_rings_front(Stitch(rings), r)).rings)
                IN  IF interior = {}
                    THEN Segs(m_rings') = Rest([m_rings EXCEPT ![r].segments = segs])
                    ELSE \E k \in interior :
                            /\ Closed(SubSeq(segs, 1, k))
                            /\ SubSeq(segs, k + 1, n) # << >>
                            /\ Chain(SubSeq(segs, k + 1, n))
                            /\ Segs(m_rings') =
                                  Rest(Append(
                                      [m_rings EXCEPT ![r].segments = SubSeq(segs, k + 1, n)],
                                      ProtoRing(SubSeq(segs, 1, k))))
        IN  hit # {} =>
                \E r \in hit :
                    /\ \A i \in hit : r <= i
                    /\ CASE AttachCase(m_rings[r], seg) = 1 ->
                                Back(r, Append(m_rings[r].segments, seg))
                         [] AttachCase(m_rings[r], seg) = 2 ->
                                Back(r, Append(m_rings[r].segments, swap_locations(seg)))
                         [] AttachCase(m_rings[r], seg) = 3 ->
                                Front(r, << swap_locations(seg) >> \o m_rings[r].segments)
                         [] AttachCase(m_rings[r], seg) = 4 ->
                                Front(r, << seg >> \o m_rings[r].segments)
      ]_vars

\* the segment loop has ended for the pentagon and the two triangles that
\* touch it at one of its nodes: the first triangle was split off at the back
\* of the ring, the pentagon at its front, and the ring list holds the three
\* as closed rings
C17_Witness ==
    /\ pc = "stitch"
    /\ idx = Len(m_segment_list) + 1
    /\ input.type = "relation"
    /\ {input.members[i].way : i \in 1..Len(input.members)} = {14, 15, 16}
    /\ Len(m_rings) = 3
    /\ \A i \in 1..3 : closed(m_rings[i]) /\ Cardinality(get_ways(m_rings[i])) = 1
    /\ get_ways(m_rings[1]) = {15}
    /\ get_ways(m_rings[2]) = {16}
    /\ get_ways(m_rings[3]) = {14}

\* C18: when a segment has been attached to a ring R and the subring split is
\* done, and an open ring S other than R has an end at the end of R that was
\* extended, R and S become one connected chain made of the segments of both,
\* each once, S leaves the ring list, and check_for_closed_subring runs on the
\* chain.  A closed ring is never taken as S.  When there is no such S, the
\* ring list stays as attach and split left it.
C18_RingMerge ==
    [][ (pc = "stitch" /\ idx' = idx + 1) =>
        LET seg == m_segment_list[idx]
            Segs(rings) == [i \in 1..Len(rings) |-> rings[i].segments]
            hit == {i \in 1..Len(m_rings) : AttachCase(m_rings[i], seg) # 0}
            Chain(segs) == \A k \in 1..(Len(segs) - 1) :
                               Loc(segs[k].second) = Loc(segs[k + 1].first)
            FrontOf(segs) == Loc(segs[1].first)
            BackOf(segs) == Loc(segs[Len(segs)].second)
            Rev(segs) == [k \in 1..Len(segs) |->
                             [segs[Len(segs) + 1 - k] EXCEPT
                                 !.first = segs[Len(segs) + 1 - k].second,
                                 !.second = segs[Len(segs) + 1 - k].first]]
            Without(rings, s) == SubSeq(rings, 1, s - 1) \o SubSeq(rings, s + 1, Len(rings))
            \* rings: the ring list after attach and split; free: the end of
            \* ring r that was extended
            MergeStep(rings, r, free) ==
                LET others == {s \in 1..Len(rings) :
                                  /\ s # r
                                  /\ FrontOf(rings[s].segments) # BackOf(rings[s].segments)
                                  /\ free \in {FrontOf(rings[s].segments),
                                               BackOf(rings[s].segments)}}
                IN  IF others = {}
                    THEN Segs(m_rings') = Segs(rings)
                    ELSE \E s \in others :
                         \E R \in {rings[r].segments, Rev(rings[r].segments)},
                            S \in {rings[s].segments, Rev(rings[s].segments)} :
                         \E chain \in {R \o S, S \o R} :
                            /\ Chain(chain)
                            /\ Segs(m_rings') =
                                  Segs(check_for_closed_subring(
                                      Stitch(Without([rings EXCEPT ![r].segments = chain], s)),
                                      IF s < r THEN r - 1 ELSE r).rings)
            Back(st, r) == MergeStep(st.rings, r, BackOf(st.rings[r].segments))
            Front(st, r) == MergeStep(st.rings, r, FrontOf(st.rings[r].segments))
            With(r, segs) == Stitch([m_rings EXCEPT ![r].segments = segs])
        IN  hit # {} =>
                \E r \in hit :
                    /\ \A i \in hit : r <= i
                    /\ CASE AttachCase(m_rings[r], seg) = 1 ->
                                Back(has_closed_subring_back(
                                         With(r, Append(m_rings[r].segments, seg)),
                                         r, seg.second), r)
                         [] AttachCase(m_rings[r], seg) = 2 ->
                                Back(has_closed_subring_back(
                                         With(r, Append(m_rings[r].segments,
                                                        swap_locations(seg))),
                                         r, seg.first), r)
                         [] AttachCase(m_rings[r], seg) = 3 ->
                                Front(has_closed_subring_front(
                                          With(r, << swap_locations(seg) >>
                                                      \o m_rings[r].segments),
                                          r, seg.second), r)
                         [] AttachCase(m_rings[r], seg) = 4 ->
                                Front(has_closed_subring_front(
                                          With(r, << seg >> \o m_rings[r].segments),
                                          r, seg.first), r)
      ]_vars

\* ways 1 and 7 touch at node 4.  Seven of their eight segments have been
\* stitched: the ring that went through node 4 and along way 7 has been merged
\* with the ring that started at node 4, and check_for_closed_subring has
\* split the triangle of way 7 off the merged chain
C18_Witness ==
    /\ pc = "stitch"
    /\ idx = 8
    /\ input.type = "relation"
    /\ {input.members[i].way : i \in 1..Len(input.members)} = {1, 7}
    /\ Len(m_rings) = 2
    /\ ~closed(m_rings[1])
    /\ Len(m_rings[1].segments) = 4
    /\ get_ways(m_rings[1]) = {1}
    /\ closed(m_rings[2])
    /\ get_ways(m_rings[2]) = {7}

\* C19: once create_rings has classified the rings, a single ring is outer;
\* of several rings, a ring R is inner iff count + (above mod 2) is odd, where
\* both are taken over the segments of the sorted segment list that start at
\* or to the left of min_node(R) and are not segments of R: count is the
\* number of them that are to the left of min_node(R), above the number of
\* their endpoints at min_node(R) whose other endpoint has a greater y.  Every
\* ring is in exactly one of m_outer_rings and m_inner_rings, once, and its
\* flag says which.  Of two rings one of which has its min_node inside the
\* other while no node of the two is shared, the one around is outer and the
\* one inside is inner.
C19_InnerOuterClassification ==
    (pc \in {"roles", "emit"}) =>
        LET list == m_segment_list
            Others(i, p) == {k \in 1..Len(list) :
                                /\ X(Loc(list[k].first)) <= X(p)
                                /\ ~contains(m_rings[i], list[k])}
            Count(i, p) == Cardinality({k \in Others(i, p) : to_left_of(list[k], p)})
            Above(i, p) ==
                Cardinality({k \in Others(i, p) : /\ Loc(list[k].first) = p
                                                  /\ Y(Loc(list[k].second)) > Y(p)})
              + Cardinality({k \in Others(i, p) : /\ Loc(list[k].second) = p
                                                  /\ Y(Loc(list[k].first)) > Y(p)})
            Odd(i, p) == (Count(i, p) + (Above(i, p) % 2)) % 2 = 1
            InOuter(i) == {k \in 1..Len(m_outer_rings) : m_outer_rings[k] = i}
            InInner(i) == {k \in 1..Len(m_inner_rings) : m_inner_rings[k] = i}
            Nodes(i) == {Loc(n) : n \in Range(RingNodes(m_rings[i]))}
        IN  /\ Len(m_rings) = 1 => m_outer_rings = << 1 >> /\ m_inner_rings = << >>
            /\ Len(m_rings) > 1 =>
                  \A i \in 1..Len(m_rings) :
                      InInner(i) # {} <=> Odd(i, Loc(min_node(m_rings[i])))
            /\ \A i \in 1..Len(m_rings) :
                  /\ Cardinality(InOuter(i)) + Cardinality(InInner(i)) = 1
                  /\ m_rings[i].outer <=> InOuter(i) # {}
            /\ Len(m_rings) = 2 =>
                  \A i, o \in 1..2 :
                      ( /\ i # o
                        /\ PointInRing(Loc(min_node(m_rings[i])), m_rings[o])
                        /\ Nodes(i) \cap Nodes(o) = {} )
                      => InInner(i) # {} /\ InOuter(o) # {}

\* the triangle of way 5 and the triangle of way 6 inside it have been
\* classified: the ring of way 5 is outer, the ring of way 6 is inner
C19_Witness ==
    /\ pc = "roles"
    /\ input.type = "relation"
    /\ Len(m_rings) = 2
    /\ Len(m_outer_rings) = 1
    /\ Len(m_inner_rings) = 1
    /\ get_ways(m_rings[m_outer_rings[1]]) = {5}
    /\ get_ways(m_rings[m_inner_rings[1]]) = {6}

\* C20: on a sorted multimap, remove(id, value) followed by erase_removed()
\* takes out one entry (id, value) when there is one and leaves the other
\* entries in their order, and leaves the multimap as it was when there is
\* none; remove() by itself leaves the number of entries as it is and changes
\* one entry at most.
C20_RemoveThenEraseRemoved ==
    LET before == client.before
        entries == {i \in 1..Len(before) :
                       before[i] = [first |-> client.id, second |-> client.value]}
    IN  /\ client.pc = "removed" =>
              /\ Len(m_vector) = Len(before)
              /\ Cardinality({i \in 1..Len(before) : m_vector[i] # before[i]}) <= 1
        /\ client.pc = "erased" =>
              IF entries = {}
              THEN m_vector = before
              ELSE /\ Len(m_vector) = Len(before) - 1
                   /\ \E i \in entries :
                         m_vector = SubSeq(before, 1, i - 1)
                                      \o SubSeq(before, i + 1, Len(before))

\* C21: while create_rings goes through the segment list, the rings hold the
\* segments gone through so far and nothing else: taking a segment as the pair
\* of its endpoint locations, whichever way round, every such segment is in
\* one ring, once, every segment of a ring is one of them, and no ring is
\* empty.
C21_SegmentConservation ==
    (pc = "stitch") =>
        LET Pair(seg) == {Loc(seg.first), Loc(seg.second)}
            done == {Pair(m_segment_list[k]) : k \in 1..(idx - 1)}
            places == {q \in (1..Len(m_rings)) \X (1..(idx - 1)) :
                          q[2] <= Len(m_rings[q[1]].segments)}
            At(q) == Pair(m_rings[q[1]].segments[q[2]])
        IN  /\ \A i \in 1..Len(m_rings) :
                  /\ m_rings[i].segments # << >>
                  /\ Len(m_rings[i].segments) <= idx - 1
            /\ {At(q) : q \in places} = done
            /\ \A q1, q2 \in places : At(q1) = At(q2) => q1 = q2
            /\ \A k1, k2 \in 1..(idx - 1) :
                  Pair(m_segment_list[k1]) = Pair(m_segment_list[k2]) => k1 = k2

\* the eight segments of ways 1 and 7, which touch at node 4, have all been
\* stitched, through a ring merge and a subring split, into two closed rings
C21_Witness ==
    /\ pc = "stitch"
    /\ idx = 9
    /\ idx = Len(m_segment_list) + 1
    /\ input.type = "relation"
    /\ {input.members[i].way : i \in 1..Len(input.members)} = {1, 7}
    /\ Len(m_rings) = 2
    /\ Len(m_rings[1].segments) = 5
    /\ Len(m_rings[2].segments) = 3

\* C22: on a new Assembler, when the sorted segment list without duplicates
\* has no intersections and every location is an endpoint of an even number
\* of its segments, every ring is closed once the segment loop has ended,
\* check_for_open_rings reports nothing and create_rings does not fail.  Rings
\* that touch at a node are such a case.
C22_StitchingCompleteness ==
    LET list == m_segment_list
        ends == UNION {{Loc(list[k].first), Loc(list[k].second)} : k \in 1..Len(list)}
        Degree(l) == Cardinality({k \in 1..Len(list) :
                                     l \in {Loc(list[k].first), Loc(list[k].second)}})
        even == \A l \in ends : Degree(l) % 2 = 0
    IN  (calls = 1 /\ even /\ ~find_intersections(list)) =>
            /\ (pc = "stitch" /\ idx > Len(list)) =>
                  /\ \A i \in 1..Len(m_rings) : closed(m_rings[i])
                  /\ ~check_for_open_rings(m_rings)
                  /\ OpenRingReports(m_rings) = << >>
            /\ rings_ok # "failed"
            /\ \A k \in 1..Len(reports) : reports[k].kind # "ring_not_closed"

\* the pentagon and the two triangles that touch it at node 45: at that node
\* six segments end; the segment loop has left three rings, the rings have
\* been classified and create_rings has returned true
C22_Witness ==
    /\ pc = "emit"
    /\ rings_ok = "ok"
    /\ input.type = "relation"
    /\ {input.members[i].way : i \in 1..Len(input.members)} = {14, 15, 16}
    /\ Len(m_rings) = 3
    /\ Cardinality({k \in 1..Len(m_segment_list) :
          <<210, 20>> \in {Loc(m_segment_list[k].first),
                           Loc(m_segment_list[k].second)}}) = 6

====
